---- MODULE Spec2Model ----
(***************************************************************************)
(* Model of ros-geometry.py: conversions between Drake geometry values     *)
(* (RigidTransform, Shape, QueryObject / SceneGraphInspector) and ROS1     *)
(* messages (Pose, Transform, Marker, MarkerArray, TFMessage).             *)
(*                                                                         *)
(* Numbers are exact integers.  Colour components are written in tenths    *)
(* (9 stands for 0.9, 10 for 1.0); lengths and coordinates are integers.   *)
(* Rotations are the unit quaternions with integer components, so that     *)
(* the quaternion <-> rotation-matrix conversions are computed exactly.    *)
(***************************************************************************)
EXTENDS Integers, Sequences, FiniteSets, TLC

VARIABLES
    query_object,   \* the scene snapshot handed to the scene functions
    X_AB,           \* the rigid transform handed to the pose codec
    marker_in,      \* the arguments handed to to_ros_markers
    pc,             \* name of the function that returned last ("idle" at start)
    args,           \* the arguments of that call
    ret             \* its outcome: [ok |-> TRUE, value |-> v], or Raised

vars == <<query_object, X_AB, marker_in, pc, args, ret>>

----------------------------------------------------------------------------
(* Bounds of the model.                                                    *)

MaxCoord == 1       \* translations have coordinates in -MaxCoord..MaxCoord
MaxGeoms == 2       \* a snapshot has at most MaxGeoms geometries
MaxFrames == 2      \* frame identifiers are 1..MaxFrames
MaxDim == 2         \* shape dimensions (size, radius, length, scale) in 1..MaxDim

----------------------------------------------------------------------------
(* Outcomes of a call.                                                     *)

Returned(v) == [ok |-> TRUE, value |-> v]
Raised == [ok |-> FALSE, value |-> "AssertionError"]
NoValue == [ok |-> TRUE, value |-> "None"]

----------------------------------------------------------------------------
(* pydrake values used by the pose codec.                                  *)

\* Quaternion as <<w, x, y, z>>
UnitQuaternions ==
    { q \in [1..4 -> -1..1] :
        q[1]*q[1] + q[2]*q[2] + q[3]*q[3] + q[4]*q[4] = 1 }

\* RotationMatrix(Quaternion): rows of the 3x3 matrix
RotationMatrix(q) ==
    LET w == q[1]  x == q[2]  y == q[3]  z == q[4]
    IN  << << 1 - 2*(y*y + z*z), 2*(x*y - w*z),     2*(x*z + w*y) >>,
           << 2*(x*y + w*z),     1 - 2*(x*x + z*z), 2*(y*z - w*x) >>,
           << 2*(x*z - w*y),     2*(y*z + w*x),     1 - 2*(x*x + y*y) >> >>

Norm(v) == CHOOSE n \in 0..16 : n*n = v[1]*v[1] + v[2]*v[2] + v[3]*v[3] + v[4]*v[4]

\* RotationMatrix.ToQuaternion(): the quaternion of largest component, made
\* canonical (w >= 0) and normalised
ToQuaternion(M) ==
    LET trace == M[1][1] + M[2][2] + M[3][3]
        raw ==
            IF trace >= M[1][1] /\ trace >= M[2][2] /\ trace >= M[3][3]
            THEN << 1 + trace, M[3][2] - M[2][3], M[1][3] - M[3][1], M[2][1] - M[1][2] >>
            ELSE IF M[1][1] >= M[2][2] /\ M[1][1] >= M[3][3]
            THEN << M[3][2] - M[2][3], 1 + M[1][1] - M[2][2] - M[3][3],
                    M[1][2] + M[2][1], M[1][3] + M[3][1] >>
            ELSE IF M[2][2] >= M[3][3]
            THEN << M[1][3] - M[3][1], M[1][2] + M[2][1],
                    1 + M[2][2] - M[1][1] - M[3][3], M[2][3] + M[3][2] >>
            ELSE << M[2][1] - M[1][2], M[1][3] + M[3][1],
                    M[2][3] + M[3][2], 1 + M[3][3] - M[1][1] - M[2][2] >>
        canonical == IF raw[1] < 0 THEN [i \in 1..4 |-> 0 - raw[i]] ELSE raw
        n == Norm(canonical)
    IN  [i \in 1..4 |-> canonical[i] \div n]

\* RigidTransform(rotation, translation)
RigidTransform(quaternion, translation) ==
    [R |-> RotationMatrix(quaternion), p |-> translation]

Coords == (0 - MaxCoord)..MaxCoord
Translations == { <<x, y, z>> : x \in Coords, y \in Coords, z \in Coords }
Transforms == { RigidTransform(q, t) : q \in UnitQuaternions, t \in Translations }

----------------------------------------------------------------------------
(* Pose / Transform codec.                                                 *)

\* _write_pose_msg(X_AB, p, q): the values written into the two sub-messages
_write_pose_msg(X) ==
    LET t == X.p
        wxyz == ToQuaternion(X.R)
    IN  [p |-> [x |-> t[1], y |-> t[2], z |-> t[3]],
         q |-> [w |-> wxyz[1], x |-> wxyz[2], y |-> wxyz[3], z |-> wxyz[4]]]

to_ros_pose(X) ==
    LET w == _write_pose_msg(X)
    IN  [position |-> w.p, orientation |-> w.q]

to_ros_transform(X) ==
    LET w == _write_pose_msg(X)
    IN  [translation |-> w.p, rotation |-> w.q]

_read_pose_msg_swapped(p, q) ==
    RigidTransform(<<q.x, q.y, q.z, q.w>>, <<p.x, p.y, p.z>>)

_read_pose_msg(p, q) ==
    RigidTransform(<<q.w, q.x, q.y, q.z>>, <<p.x, p.y, p.z>>)

from_ros_pose(pose) == _read_pose_msg(pose.position, pose.orientation)

from_ros_transform(tr) == _read_pose_msg(tr.translation, tr.rotation)

----------------------------------------------------------------------------
(* Values shared by the marker codec and the scene functions.              *)

\* Python's None
None == [tag |-> "None"]

\* Rgba(r, g, b, a), components in tenths
Rgba(r, g, b, a) == [r |-> r, g |-> g, b |-> b, a |-> a]

DEFAULT_RGBA == Rgba(9, 9, 9, 10)

\* colours a caller may supply; the second lies outside [0, 1]
Colors == { Rgba(10, 0, 0, 10), Rgba(15, 4, 6, 5) }

Dims == 1..MaxDim
Filenames == { "a.obj", "b.obj" }

Boxes == { [type |-> "Box", size |-> <<a, b, c>>] : a \in Dims, b \in Dims, c \in Dims }
Spheres == { [type |-> "Sphere", radius |-> r] : r \in Dims }
Cylinders == { [type |-> "Cylinder", radius |-> r, length |-> l] : r \in Dims, l \in Dims }
Meshes == { [type |-> "Mesh", filename |-> f, scale |-> s] : f \in Filenames, s \in Dims }
Convexes == { [type |-> "Convex", filename |-> f, scale |-> s] : f \in Filenames, s \in Dims }
\* Shape subclasses of pydrake that to_ros_markers has no branch for
Capsules == { [type |-> "Capsule", radius |-> r, length |-> l] : r \in Dims, l \in Dims }
HalfSpaces == { [type |-> "HalfSpace"] }

SupportedTypes == { "Box", "Sphere", "Cylinder", "Mesh", "Convex" }
SupportedShapes == Boxes \cup Spheres \cup Cylinders \cup Meshes \cup Convexes
Shapes == SupportedShapes \cup Capsules \cup HalfSpaces

Stamps == { 10 }
FrameNames == { "a", "b" }
GeometryNames == { "g", "h" }

IdentityTransform == RigidTransform(<<1, 0, 0, 0>>, <<0, 0, 0>>)

----------------------------------------------------------------------------
(* Marker codec.                                                           *)

\* Marker(): the message with its default field values
Marker ==
    [header |-> [stamp |-> 0, frame_id |-> ""],
     id |-> 0,
     type |-> "ARROW",
     action |-> "ADD",
     pose |-> [position |-> [x |-> 0, y |-> 0, z |-> 0],
               orientation |-> [w |-> 0, x |-> 0, y |-> 0, z |-> 0]],
     scale |-> [x |-> 0, y |-> 0, z |-> 0],
     color |-> [r |-> 0, g |-> 0, b |-> 0, a |-> 0],
     lifetime |-> 0,
     frame_locked |-> FALSE,
     mesh_resource |-> "",
     mesh_use_embedded_materials |-> FALSE]

use_color_no_default(marker, color_rgba) ==
    IF color_rgba = None
    THEN marker
    ELSE [marker EXCEPT !.color = [r |-> color_rgba.r, g |-> color_rgba.g,
                                   b |-> color_rgba.b, a |-> color_rgba.a]]

\* the nested use_color(): resolve the colour and write it into the marker
use_color(marker, color_rgba) ==
    LET c == IF color_rgba = None THEN DEFAULT_RGBA ELSE color_rgba
    IN  [marker EXCEPT !.color = [r |-> c.r, g |-> c.g, b |-> c.b, a |-> c.a]]

\* lines 76-82: the fields every marker carries
new_marker(stamp, frame_name, X_FG) ==
    [Marker EXCEPT !.header.stamp = stamp,
                   !.header.frame_id = frame_name,
                   !.pose = to_ros_pose(X_FG),
                   !.action = "ADD",
                   !.lifetime = 0,
                   !.frame_locked = TRUE]

\* the branch of to_ros_markers for a Box
box_marker(marker, shape, color_rgba) ==
    use_color([marker EXCEPT !.type = "CUBE",
                             !.scale = [x |-> shape.size[1], y |-> shape.size[2],
                                        z |-> shape.size[3]]],
              color_rgba)

\* the branch for a Sphere
sphere_marker(marker, shape, color_rgba) ==
    use_color([marker EXCEPT !.type = "SPHERE",
                             !.scale = [x |-> shape.radius, y |-> shape.radius,
                                        z |-> shape.radius]],
              color_rgba)

cylinder_marker_swapped(marker, shape, color_rgba) ==
    use_color([marker EXCEPT !.type = "CYLINDER",
                             !.scale = [x |-> shape.length, y |-> shape.length,
                                        z |-> shape.radius]],
              color_rgba)

\* the branch for a Cylinder
cylinder_marker(marker, shape, color_rgba) ==
    use_color([marker EXCEPT !.type = "CYLINDER",
                             !.scale = [x |-> shape.radius, y |-> shape.radius,
                                        z |-> shape.length]],
              color_rgba)

\* the branch for a Mesh or a Convex
mesh_marker(marker, shape, color_rgba) ==
    [use_color([marker EXCEPT !.type = "MESH_RESOURCE",
                              !.mesh_resource = "file://" \o shape.filename],
               color_rgba)
     EXCEPT !.mesh_use_embedded_materials = TRUE,
            !.scale = [x |-> shape.scale, y |-> shape.scale, z |-> shape.scale]]

to_ros_markers_silent(shape, stamp, frame_name, X_FG, color_rgba) ==
    LET marker == new_marker(stamp, frame_name, X_FG)
    IN  IF shape.type = "Box" THEN Returned(<< box_marker(marker, shape, color_rgba) >>)
        ELSE IF shape.type = "Sphere"
        THEN Returned(<< sphere_marker(marker, shape, color_rgba) >>)
        ELSE IF shape.type = "Cylinder"
        THEN Returned(<< cylinder_marker(marker, shape, color_rgba) >>)
        ELSE IF shape.type \in { "Mesh", "Convex" }
        THEN Returned(<< mesh_marker(marker, shape, color_rgba) >>)
        ELSE Returned(<< >>)

to_ros_markers(shape, stamp, frame_name, X_FG, color_rgba) ==
    LET marker == new_marker(stamp, frame_name, X_FG)
    IN  IF shape.type = "Box" THEN Returned(<< box_marker(marker, shape, color_rgba) >>)
        ELSE IF shape.type = "Sphere"
        THEN Returned(<< sphere_marker(marker, shape, color_rgba) >>)
        ELSE IF shape.type = "Cylinder"
        THEN Returned(<< cylinder_marker(marker, shape, color_rgba) >>)
        ELSE IF shape.type \in { "Mesh", "Convex" }
        THEN Returned(<< mesh_marker(marker, shape, color_rgba) >>)
        ELSE Raised

----------------------------------------------------------------------------
(* The scene snapshot: QueryObject and its SceneGraphInspector.            *)
(*   ids            GetAllGeometryIds(), in enumeration order              *)
(*   frame_id       GetFrameId(geometry_id)                                *)
(*   geometry_name  GetName(geometry_id)                                   *)
(*   frame_name     GetName(frame_id), for every frame of the scene graph  *)
(*   shape          GetShape(geometry_id)                                  *)
(*   X_FG           GetPoseInFrame(geometry_id)                            *)
(*   proximity, illustration, perception                                   *)
(*                  Get<Role>Properties(geometry_id): None or a property   *)
(*                  set                                                    *)
(*   X_WF           QueryObject.X_WF(frame_id)                             *)

GeometryIds == 1..MaxGeoms
FrameIds == 1..MaxFrames
Roles == { "kProximity", "kIllustration", "kPerception" }

Range(f) == { f[i] : i \in DOMAIN f }

\* enumerations of a set of geometry identifiers: no identifier twice
IdSeqs ==
    UNION { { s \in [1..n -> GeometryIds] : \A i, j \in 1..n : i # j => s[i] # s[j] }
            : n \in 0..MaxGeoms }

\* a property set: values keyed by <<group, name>>
Properties(values) == [tag |-> "Properties", values |-> values]
HasProperty(properties, group, name) == <<group, name>> \in DOMAIN properties.values
GetProperty(properties, group, name) == properties.values[<<group, name>>]

WithDiffuse(c) == Properties([k \in { <<"phong", "diffuse">> } |-> c])
WithoutDiffuse == Properties([k \in { <<"label", "id">> } |-> 7])

\* role assignments of one geometry: under each role some geometry has no
\* properties, some has properties without a colour, some has a colour
RoleAssignments ==
    { [proximity |-> None, illustration |-> WithDiffuse(Rgba(10, 0, 0, 10)),
       perception |-> WithoutDiffuse],
      [proximity |-> WithoutDiffuse, illustration |-> None,
       perception |-> WithDiffuse(Rgba(15, 4, 6, 5))],
      [proximity |-> WithDiffuse(Rgba(15, 4, 6, 5)), illustration |-> WithoutDiffuse,
       perception |-> None] }

\* one shape of every supported variant, and one unsupported shape
SampleShapes ==
    { [type |-> "Box", size |-> <<1, 2, 3>>],
      [type |-> "Sphere", radius |-> 2],
      [type |-> "Cylinder", radius |-> 1, length |-> 4],
      [type |-> "Mesh", filename |-> "a.obj", scale |-> 2],
      [type |-> "Convex", filename |-> "b.obj", scale |-> 3],
      [type |-> "Capsule", radius |-> 1, length |-> 2] }

Translation(x, y, z) == RigidTransform(<<1, 0, 0, 0>>, <<x, y, z>>)

EmptyQueryObject ==
    [ids |-> <<>>, frame_id |-> <<>>, geometry_name |-> <<>>,
     frame_name |-> [f \in FrameIds |-> "a"], shape |-> <<>>, X_FG |-> <<>>,
     proximity |-> <<>>, illustration |-> <<>>, perception |-> <<>>,
     X_WF |-> [f \in FrameIds |-> IdentityTransform]]

----------------------------------------------------------------------------
(* Scene functions.                                                        *)

get_role_properties_illustration_only(inspector, role, geometry_id) ==
    inspector.illustration[geometry_id]

get_role_properties(inspector, role, geometry_id) ==
    IF role = "kProximity" THEN inspector.proximity[geometry_id]
    ELSE IF role = "kIllustration" THEN inspector.illustration[geometry_id]
    ELSE inspector.perception[geometry_id]

\* the sets built by the loop of sanity_check_query_object over ids[1..n]
RECURSIVE sanity_check_sets(_, _)
sanity_check_sets(inspector, n) ==
    IF n = 0
    THEN [frame_ids |-> {}, frame_names |-> {}, geometry_ids |-> {}, geometry_names |-> {}]
    ELSE LET acc == sanity_check_sets(inspector, n - 1)
             geometry_id == inspector.ids[n]
             geometry_name == inspector.geometry_name[geometry_id]
             frame_id == inspector.frame_id[geometry_id]
             frame_name == inspector.frame_name[frame_id]
         IN  [frame_ids |-> acc.frame_ids \cup { frame_id },
              frame_names |-> acc.frame_names \cup { frame_name },
              geometry_ids |-> acc.geometry_ids \cup { geometry_id },
              geometry_names |-> acc.geometry_names \cup { geometry_name }]

sanity_check_query_object_geometry_only(q) ==
    LET sets == sanity_check_sets(q, Len(q.ids))
    IN  IF Cardinality(sets.geometry_ids) # Cardinality(sets.geometry_names) THEN Raised
        ELSE NoValue

sanity_check_query_object(q) ==
    LET sets == sanity_check_sets(q, Len(q.ids))
    IN  IF Cardinality(sets.frame_ids) # Cardinality(sets.frame_names) THEN Raised
        ELSE IF Cardinality(sets.geometry_ids) # Cardinality(sets.geometry_names) THEN Raised
        ELSE NoValue

prepend_markers(markers, made) == made \o markers

\* marker_array.markers += made
append_markers(markers, made) == markers \o made

\* the first loop of to_ros_marker_array from position i on, markers being
\* the markers appended so far
RECURSIVE collect_markers(_, _, _, _, _)
collect_markers(inspector, role, stamp, i, markers) ==
    IF i > Len(inspector.ids)
    THEN Returned(markers)
    ELSE LET geometry_id == inspector.ids[i]
             shape == inspector.shape[geometry_id]
             frame_id == inspector.frame_id[geometry_id]
             X_FG == inspector.X_FG[geometry_id]
             frame_name == inspector.frame_name[frame_id]
             properties == get_role_properties(inspector, role, geometry_id)
         IN  IF properties = None
             THEN collect_markers(inspector, role, stamp, i + 1, markers)
             ELSE LET color_rgba == IF HasProperty(properties, "phong", "diffuse")
                                    THEN GetProperty(properties, "phong", "diffuse")
                                    ELSE None
                      made == to_ros_markers(shape, stamp, frame_name, X_FG, color_rgba)
                  IN  IF made.ok
                      THEN collect_markers(inspector, role, stamp, i + 1,
                                           append_markers(markers, made.value))
                      ELSE Raised

\* the second loop of to_ros_marker_array: marker.id = i (0-based)
assign_ids_keep(markers) == markers

assign_ids(markers) ==
    [i \in 1..Len(markers) |-> [markers[i] EXCEPT !.id = i - 1]]

to_ros_marker_array(q, role, stamp) ==
    LET collected == collect_markers(q, role, stamp, 1, <<>>)
    IN  IF collected.ok
        THEN Returned([markers |-> assign_ids(collected.value)])
        ELSE Raised

RECURSIVE sorted_descending(_)
sorted_descending(S) ==
    IF S = {} THEN <<>>
    ELSE LET m == CHOOSE x \in S : \A y \in S : x >= y
         IN  <<m>> \o sorted_descending(S \ { m })

\* sorted(list(frame_ids))
RECURSIVE sorted(_)
sorted(S) ==
    IF S = {} THEN <<>>
    ELSE LET m == CHOOSE x \in S : \A y \in S : x <= y
         IN  <<m>> \o sorted(S \ { m })

\* the frame identifiers collected by the first loop of to_ros_tf_message
RECURSIVE collect_frame_ids(_, _)
collect_frame_ids(inspector, n) ==
    IF n = 0 THEN {}
    ELSE collect_frame_ids(inspector, n - 1) \cup { inspector.frame_id[inspector.ids[n]] }

\* the TransformStamped built by one pass of the second loop
transform_stamped(q, stamp, frame_id) ==
    [header |-> [frame_id |-> "world", stamp |-> stamp],
     child_frame_id |-> q.frame_name[frame_id],
     transform |-> to_ros_transform(q.X_WF[frame_id])]

\* frame identifiers in the order the enumeration first meets them
RECURSIVE first_seen(_, _)
first_seen(inspector, n) ==
    IF n = 0 THEN <<>>
    ELSE LET before == first_seen(inspector, n - 1)
             frame_id == inspector.frame_id[inspector.ids[n]]
         IN  IF frame_id \in Range(before) THEN before ELSE Append(before, frame_id)

to_ros_tf_message_unsorted(q, stamp) ==
    LET frame_ids == first_seen(q, Len(q.ids))
    IN  Returned([transforms |->
            [k \in 1..Len(frame_ids) |-> transform_stamped(q, stamp, frame_ids[k])]])

to_ros_tf_message(q, stamp) ==
    LET frame_ids == sorted(collect_frame_ids(q, Len(q.ids)))
    IN  Returned([transforms |->
            [k \in 1..Len(frame_ids) |-> transform_stamped(q, stamp, frame_ids[k])]])

----------------------------------------------------------------------------
(* Calls.  Every function is stateless: a call reads its inputs and         *)
(* leaves its outcome in ret.                                              *)

Inputs == <<query_object, X_AB, marker_in>>

ToRosPose ==
    /\ pc' = "to_ros_pose"
    /\ args' = [X_AB |-> X_AB]
    /\ ret' = Returned(to_ros_pose(X_AB))
    /\ UNCHANGED Inputs

\* from_ros_pose applied to the message to_ros_pose has just returned
FromRosPose ==
    /\ pc = "to_ros_pose"
    /\ pc' = "from_ros_pose"
    /\ args' = [pose |-> ret.value]
    /\ ret' = Returned(from_ros_pose(ret.value))
    /\ UNCHANGED Inputs

ToRosTransform ==
    /\ pc' = "to_ros_transform"
    /\ args' = [X_AB |-> X_AB]
    /\ ret' = Returned(to_ros_transform(X_AB))
    /\ UNCHANGED Inputs

\* from_ros_transform applied to the message to_ros_transform has just returned
FromRosTransform ==
    /\ pc = "to_ros_transform"
    /\ pc' = "from_ros_transform"
    /\ args' = [tr |-> ret.value]
    /\ ret' = Returned(from_ros_transform(ret.value))
    /\ UNCHANGED Inputs

ToRosMarkers ==
    /\ pc' = "to_ros_markers"
    /\ args' = marker_in
    /\ ret' = to_ros_markers(marker_in.shape, marker_in.stamp, marker_in.frame_name,
                             marker_in.X_FG, marker_in.color_rgba)
    /\ UNCHANGED Inputs

SanityCheckQueryObject ==
    /\ pc' = "sanity_check_query_object"
    /\ args' = [debug |-> FALSE]
    /\ ret' = sanity_check_query_object(query_object)
    /\ UNCHANGED Inputs

ToRosMarkerArray ==
    \E role \in Roles, stamp \in Stamps :
        /\ pc' = "to_ros_marker_array"
        /\ args' = [role |-> role, stamp |-> stamp]
        /\ ret' = to_ros_marker_array(query_object, role, stamp)
        /\ UNCHANGED Inputs

ToRosTfMessage ==
    \E stamp \in Stamps :
        /\ pc' = "to_ros_tf_message"
        /\ args' = [stamp |-> stamp]
        /\ ret' = to_ros_tf_message(query_object, stamp)
        /\ UNCHANGED Inputs

----------------------------------------------------------------------------
(* Inputs.                                                                 *)

DefaultMarkerIn ==
    [shape |-> [type |-> "Box", size |-> <<1, 1, 1>>], stamp |-> 10, frame_name |-> "a",
     X_FG |-> IdentityTransform, color_rgba |-> None]

MarkerInputs ==
    [shape : Shapes, stamp : Stamps, frame_name : FrameNames,
     X_FG : { IdentityTransform, RigidTransform(<<0, 0, 1, 0>>, <<1, 0, 1>>) },
     color_rgba : { None } \cup Colors]

\* the two assignments of world poses to the frames that the snapshots use
WorldPoses ==
    { [f \in FrameIds |-> Translation(f, 0, 0)],
      [f \in FrameIds |-> RigidTransform(<<0, 1, 0, 0>>, <<0, f, 1>>)] }

\* frames named "a", "b", "a", ... by identifier
AlternatingNames == [f \in FrameIds |-> IF f % 2 = 1 THEN "a" ELSE "b"]

\* the snapshots whose geometries take their frame, name, shape and role
\* properties from the given sets
Snapshot(frames, frame_namings, geometry_names, shapes, assignments, world_poses) ==
    \E ids \in IdSeqs :
        \E frame_id \in [Range(ids) -> frames],
           geometry_name \in [Range(ids) -> geometry_names],
           frame_name \in frame_namings,
           shape \in [Range(ids) -> shapes],
           roles \in [Range(ids) -> assignments],
           X_WF \in world_poses :
            query_object =
                [ids |-> ids,
                 frame_id |-> frame_id,
                 geometry_name |-> geometry_name,
                 frame_name |-> frame_name,
                 shape |-> shape,
                 X_FG |-> [g \in Range(ids) |-> Translation(g, 0, 0)],
                 proximity |-> [g \in Range(ids) |-> roles[g].proximity],
                 illustration |-> [g \in Range(ids) |-> roles[g].illustration],
                 perception |-> [g \in Range(ids) |-> roles[g].perception],
                 X_WF |-> X_WF]

Idle ==
    /\ pc = "idle"
    /\ args = None
    /\ ret = NoValue

----------------------------------------------------------------------------
(* Specifications: one per group of functions.                             *)

\* the pose codec on every transform
InitPose ==
    /\ X_AB \in Transforms
    /\ query_object = EmptyQueryObject
    /\ marker_in = DefaultMarkerIn
    /\ Idle

NextPose == ToRosPose \/ FromRosPose \/ ToRosTransform \/ FromRosTransform

SpecPose == InitPose /\ [][NextPose]_vars

\* the marker codec on every shape, with and without a colour
InitMarkers ==
    /\ marker_in \in MarkerInputs
    /\ X_AB = IdentityTransform
    /\ query_object = EmptyQueryObject
    /\ Idle

NextMarkers == ToRosMarkers

SpecMarkers == InitMarkers /\ [][NextMarkers]_vars

\* validation and the frame-transform message on snapshots whose frames and
\* names vary
InitTf ==
    /\ Snapshot(FrameIds, [FrameIds -> FrameNames], GeometryNames,
                { [type |-> "Box", size |-> <<1, 2, 3>>] },
                { [proximity |-> None, illustration |-> WithoutDiffuse,
                   perception |-> None] },
                WorldPoses)
    /\ X_AB = IdentityTransform
    /\ marker_in = DefaultMarkerIn
    /\ Idle

NextTf == SanityCheckQueryObject \/ ToRosTfMessage

SpecTf == InitTf /\ [][NextTf]_vars

\* the marker array on snapshots whose frames, shapes and role properties vary
InitMarkerArray ==
    /\ Snapshot(FrameIds, { AlternatingNames }, { "g" },
                { [type |-> "Box", size |-> <<1, 2, 3>>],
                  [type |-> "Sphere", radius |-> 2],
                  [type |-> "Capsule", radius |-> 1, length |-> 2] },
                RoleAssignments,
                { [f \in FrameIds |-> IdentityTransform] })
    /\ X_AB = IdentityTransform
    /\ marker_in = DefaultMarkerIn
    /\ Idle

NextMarkerArray == ToRosMarkerArray

SpecMarkerArray == InitMarkerArray /\ [][NextMarkerArray]_vars

\* the marker array on snapshots of one frame with every shape variant
InitColor ==
    /\ Snapshot({ 1 }, { AlternatingNames }, { "g" }, SampleShapes, RoleAssignments,
                { [f \in FrameIds |-> IdentityTransform] })
    /\ X_AB = IdentityTransform
    /\ marker_in = DefaultMarkerIn
    /\ Idle

NextColor == ToRosMarkerArray

SpecColor == InitColor /\ [][NextColor]_vars

----------------------------------------------------------------------------
(* Vocabulary of the properties.                                           *)

Geometries == Range(query_object.ids)

\* the frames that own at least one geometry
ReferencedFrames == { query_object.frame_id[g] : g \in Geometries }

\* geometry g possesses properties for the role
PossessesRole(g, role) ==
    \/ role = "kProximity" /\ query_object.proximity[g] # None
    \/ role = "kIllustration" /\ query_object.illustration[g] # None
    \/ role = "kPerception" /\ query_object.perception[g] # None

\* the colour property of geometry g under the role, None when it has none
DiffuseOf(g, role) ==
    LET bag == IF role = "kProximity" THEN query_object.proximity[g]
               ELSE IF role = "kIllustration" THEN query_object.illustration[g]
               ELSE query_object.perception[g]
    IN  IF <<"phong", "diffuse">> \in DOMAIN bag.values
        THEN bag.values[<<"phong", "diffuse">>]
        ELSE None

\* the geometries possessing the role, in enumeration order
RoleGeometries(role) ==
    SelectSeq(query_object.ids, LAMBDA g : PossessesRole(g, role))

Unsupported(g) == query_object.shape[g].type \notin SupportedTypes

\* marker kind and scale the specification gives for a supported shape
KindOf(shape) ==
    CASE shape.type = "Box" -> "CUBE"
      [] shape.type = "Sphere" -> "SPHERE"
      [] shape.type = "Cylinder" -> "CYLINDER"
      [] shape.type \in { "Mesh", "Convex" } -> "MESH_RESOURCE"

ScaleOf(shape) ==
    CASE shape.type = "Box" ->
            [x |-> shape.size[1], y |-> shape.size[2], z |-> shape.size[3]]
      [] shape.type = "Sphere" ->
            [x |-> shape.radius, y |-> shape.radius, z |-> shape.radius]
      [] shape.type = "Cylinder" ->
            [x |-> shape.radius, y |-> shape.radius, z |-> shape.length]
      [] shape.type \in { "Mesh", "Convex" } ->
            [x |-> shape.scale, y |-> shape.scale, z |-> shape.scale]

MarkerArrayReturned == pc = "to_ros_marker_array" /\ ret.ok
TfReturned == pc = "to_ros_tf_message"

----------------------------------------------------------------------------
(* Properties.                                                             *)

\* C1: the markers returned by to_ros_marker_array number exactly N, the
\* number of geometries possessing the requested role, and the marker at
\* position i (0-based) has id i, so the ids are exactly 0..N-1 without
\* duplicates.
C1_MarkerIdsAreIndices ==
    MarkerArrayReturned =>
        LET markers == ret.value.markers
            N == Cardinality({ g \in Geometries : PossessesRole(g, args.role) })
        IN  /\ Len(markers) = N
            /\ \A i \in 1..N : markers[i].id = i - 1
            /\ { markers[i].id : i \in 1..N } = 0..(N - 1)

C1_Witness ==
    /\ MarkerArrayReturned
    /\ Len(ret.value.markers) = 2
    /\ ret.value.markers[2].id = 1

\* C2: the transforms returned by to_ros_tf_message are, in ascending order
\* of frame identifier, exactly one record per frame that owns a geometry:
\* no frame twice, no frame without a geometry.
C2_TfSortedOnePerFrame ==
    TfReturned =>
        LET transforms == ret.value.transforms
        IN  /\ Len(transforms) = Cardinality(ReferencedFrames)
            /\ \E f \in [1..Len(transforms) -> FrameIds] :
                /\ \A i, j \in 1..Len(transforms) : i < j => f[i] < f[j]
                /\ Range(f) = ReferencedFrames
                /\ \A k \in 1..Len(transforms) :
                    /\ transforms[k].child_frame_id = query_object.frame_name[f[k]]
                    /\ transforms[k].transform = to_ros_transform(query_object.X_WF[f[k]])
                    /\ transforms[k].header.stamp = args.stamp

C2_Witness ==
    /\ TfReturned
    /\ Len(query_object.ids) = 2
    /\ query_object.frame_id[query_object.ids[1]] = query_object.frame_id[query_object.ids[2]]
    /\ Len(ret.value.transforms) = 1

C4_RoundTrip ==
    /\ pc = "to_ros_pose" =>
            /\ <<ret.value.position.x, ret.value.position.y, ret.value.position.z>> = X_AB.p
            /\ RotationMatrix(<<ret.value.orientation.w, ret.value.orientation.x,
                                ret.value.orientation.y, ret.value.orientation.z>>) = X_AB.R
    /\ pc = "to_ros_transform" =>
            /\ <<ret.value.translation.x, ret.value.translation.y,
                 ret.value.translation.z>> = X_AB.p
            /\ RotationMatrix(<<ret.value.rotation.w, ret.value.rotation.x,
                                ret.value.rotation.y, ret.value.rotation.z>>) = X_AB.R
    /\ pc = "from_ros_pose" => ret.value = X_AB
    /\ pc = "from_ros_transform" => ret.value = X_AB

C4_Witness ==
    /\ pc = "from_ros_pose"
    /\ X_AB.R # IdentityTransform.R
    /\ X_AB.p = <<1, 0, 0 - 1>>
    /\ ret.value = X_AB

\* C5 as stated: to_ros_marker_array fails whenever the snapshot contains a
\* geometry of an unsupported shape, and a geometry lacking the requested
\* role never causes a failure.
C5_AbortsOnAnyUnsupportedShape ==
    pc = "to_ros_marker_array" =>
        /\ (\E g \in Geometries : Unsupported(g)) => ret = Raised
        /\ ret = Raised => \E g \in Geometries : PossessesRole(g, args.role) /\ Unsupported(g)

\* C5 amended: to_ros_marker_array fails, returning no MarkerArray, exactly
\* when some geometry possessing the requested role has an unsupported shape;
\* a geometry lacking the role never causes a failure, whatever its shape,
\* and contributes no marker.
C5_AbortsOnUnsupportedShapeWithRole ==
    pc = "to_ros_marker_array" =>
        /\ ret = Raised <=>
                \E g \in Geometries : PossessesRole(g, args.role) /\ Unsupported(g)
        /\ ret.ok =>
                Len(ret.value.markers)
                    = Cardinality({ g \in Geometries : PossessesRole(g, args.role) })

C5_Witness ==
    /\ pc = "to_ros_marker_array"
    /\ ret = Raised
    /\ \E g \in Geometries : PossessesRole(g, args.role) /\ Unsupported(g)
    /\ \E g \in Geometries : ~PossessesRole(g, args.role)

\* C6: for a supported shape to_ros_markers returns exactly one marker, of
\* kind CUBE / SPHERE / CYLINDER / MESH_RESOURCE and with the scale of the
\* shape's variant; a Mesh or Convex marker has resource file://<filename>
\* and uses embedded materials.
C6_OneMarkerPerSupportedShape ==
    (pc = "to_ros_markers" /\ args.shape.type \in SupportedTypes) =>
        /\ ret.ok
        /\ Len(ret.value) = 1
        /\ ret.value[1].type = KindOf(args.shape)
        /\ ret.value[1].scale = ScaleOf(args.shape)
        /\ args.shape.type \in { "Mesh", "Convex" } =>
                /\ ret.value[1].mesh_resource = "file://" \o args.shape.filename
                /\ ret.value[1].mesh_use_embedded_materials = TRUE

C6_Witness ==
    /\ pc = "to_ros_markers"
    /\ args.shape = [type |-> "Cylinder", radius |-> 1, length |-> 2]
    /\ ret.ok
    /\ ret.value[1].scale = [x |-> 1, y |-> 1, z |-> 2]

\* C7: in the array to_ros_marker_array returns, the marker of a geometry
\* whose role properties hold no ("phong", "diffuse") colour (to_ros_markers
\* then receives None) has colour (0.9, 0.9, 0.9, 1.0); the marker of a
\* geometry with such a colour carries its r, g, b, a unchanged; whatever the
\* shape variant.
C7_ColourResolution ==
    MarkerArrayReturned =>
        LET markers == ret.value.markers
            described == RoleGeometries(args.role)
        IN  /\ Len(markers) = Len(described)
            /\ \A i \in 1..Len(markers) :
                LET supplied == DiffuseOf(described[i], args.role)
                IN  IF supplied = None
                    THEN markers[i].color = [r |-> 9, g |-> 9, b |-> 9, a |-> 10]
                    ELSE markers[i].color = [r |-> supplied.r, g |-> supplied.g,
                                             b |-> supplied.b, a |-> supplied.a]

C7_Witness ==
    /\ MarkerArrayReturned
    /\ Len(ret.value.markers) = 2
    /\ ret.value.markers[1].type = "MESH_RESOURCE"
    /\ ret.value.markers[1].color = [r |-> 9, g |-> 9, b |-> 9, a |-> 10]
    /\ DiffuseOf(query_object.ids[1], args.role) = None
    /\ ret.value.markers[2].color = [r |-> 15, g |-> 4, b |-> 6, a |-> 5]

\* the enumerations of the geometries of the snapshot
Enumerations == { s \in IdSeqs : Range(s) = Geometries /\ Len(s) = Len(query_object.ids) }

\* C8: to_ros_tf_message returns the same transform sequence for every
\* snapshot that differs from the given one only in the order in which the
\* geometries are enumerated, the timestamp being the same.
C8_TfIndependentOfEnumeration ==
    TfReturned =>
        \A ids \in Enumerations :
            to_ros_tf_message([query_object EXCEPT !.ids = ids], args.stamp) = ret

C8_Witness ==
    /\ TfReturned
    /\ Len(query_object.ids) = 2
    /\ query_object.frame_id[query_object.ids[1]] > query_object.frame_id[query_object.ids[2]]
    /\ Len(ret.value.transforms) = 2
    /\ ret.value.transforms[1] # ret.value.transforms[2]

\* C9: the marker with id i describes the i-th geometry, in enumeration
\* order, among those possessing the requested role: its frame name is the
\* name of that geometry's frame, its pose that geometry's pose in its frame,
\* its kind and scale those of that geometry's shape.
C9_MarkersFollowEnumeration ==
    MarkerArrayReturned =>
        LET markers == ret.value.markers
            described == RoleGeometries(args.role)
        IN  /\ Len(markers) = Len(described)
            /\ \A i \in 1..Len(markers) :
                LET g == described[i]
                IN  /\ markers[i].id = i - 1
                    /\ markers[i].header.frame_id
                            = query_object.frame_name[query_object.frame_id[g]]
                    /\ markers[i].pose = to_ros_pose(query_object.X_FG[g])
                    /\ markers[i].type = KindOf(query_object.shape[g])
                    /\ markers[i].scale = ScaleOf(query_object.shape[g])

C9_Witness ==
    /\ MarkerArrayReturned
    /\ Len(query_object.ids) = 2
    /\ query_object.ids[1] > query_object.ids[2]
    /\ Len(ret.value.markers) = 2
    /\ ret.value.markers[1].type = "SPHERE"
    /\ ret.value.markers[2].type = "CUBE"
    /\ ret.value.markers[1].header.frame_id # ret.value.markers[2].header.frame_id

\* C10: on a snapshot that sanity_check_query_object accepts, the records
\* returned by to_ros_tf_message have pairwise distinct child_frame_id, and
\* every record has parent frame "world".
C10_ValidatedTfHasDistinctChildren ==
    TfReturned =>
        LET transforms == ret.value.transforms
        IN  /\ \A k \in 1..Len(transforms) : transforms[k].header.frame_id = "world"
            /\ sanity_check_query_object(query_object) = NoValue =>
                    \A i, j \in 1..Len(transforms) :
                        i # j => transforms[i].child_frame_id # transforms[j].child_frame_id

C10_Witness ==
    /\ TfReturned
    /\ sanity_check_query_object(query_object) = NoValue
    /\ Len(ret.value.transforms) = 2
    /\ ret.value.transforms[1].child_frame_id # ret.value.transforms[2].child_frame_id

====
